---- MODULE Spec2Model ----
(***************************************************************************)
(* RUSBoostClassifier.fit and its two boosting rounds (_boost_discrete,    *)
(* _boost_real) of src/imblearn/ensemble/_weight_boosting.py.              *)
(*                                                                         *)
(* Numbers.  The code computes in float64; the model computes exactly.     *)
(* A number is a record [tag, n, d, lr]:                                   *)
(*   tag "rat" : the rational n/d, d > 0, in lowest terms                  *)
(*   tag "ln"  : lr * ln(n/d), n > 0, d > 0, in lowest terms               *)
(*   tag "nan" : a float NaN (the result of dividing by a zero sum)        *)
(* A weight vector is [nums, den]: entry i is nums[i]/den; den = 0 says    *)
(* the entries are the non-finite results of a division by zero.           *)
(*                                                                         *)
(* The weak learner and the sampler are external: what a fitted learner    *)
(* predicts is chosen nondeterministically in each round.                  *)
(*                                                                         *)
(* The names check_X_y, check_array, check_random_state, is_regressor and  *)
(* verbose are free in the file (no import, no assignment); the model      *)
(* reads them as the sklearn utilities and as a verbosity of 0, so that    *)
(* the boosting loop itself is what is modelled.                           *)
(***************************************************************************)
EXTENDS Integers, Sequences, FiniteSets, TLC

\* Largest n_estimators the inputs are drawn from.
MaxEstimators == 2

----------------------------------------------------------------------------
\* Exact arithmetic

Abs(x) == IF x < 0 THEN -x ELSE x

RECURSIVE GCD(_, _)
GCD(a, b) == IF b = 0 THEN a ELSE GCD(b, a % b)

RECURSIVE Pow(_, _)
Pow(b, k) == IF k <= 0 THEN 1 ELSE b * Pow(b, k - 1)

RECURSIVE SumSeq(_)
SumSeq(s) == IF s = <<>> THEN 0 ELSE Head(s) + SumSeq(Tail(s))

RECURSIVE GCDSeq(_)
GCDSeq(s) == IF s = <<>> THEN 0 ELSE GCD(Abs(Head(s)), GCDSeq(Tail(s)))

RECURSIVE LCMSeq(_)
LCMSeq(s) ==
    IF s = <<>> THEN 1
    ELSE LET r == LCMSeq(Tail(s)) IN (Head(s) * r) \div GCD(Head(s), r)

NaN == [tag |-> "nan", n |-> 0, d |-> 0, lr |-> 0]

Rat(n, d) ==
    IF d = 0 THEN NaN
    ELSE LET g == GCD(Abs(n), Abs(d))
             s == IF d < 0 THEN -1 ELSE 1
         IN [tag |-> "rat", n |-> (s * n) \div g, d |-> (s * d) \div g, lr |-> 0]

Zero == Rat(0, 1)
One == Rat(1, 1)

\* lr * ln(p/q)
Ln(lr, p, q) ==
    LET g == GCD(p, q) IN [tag |-> "ln", n |-> p \div g, d |-> q \div g, lr |-> lr]

\* Float comparisons: every comparison with NaN is false.
LeqZero(x) == x.tag = "rat" /\ x.n <= 0
EqZero(x) == x.tag = "rat" /\ x.n = 0
\* x >= 1 - 1/k for a rational x
GeqChance(x, k) == x.tag = "rat" /\ x.n * k >= (k - 1) * x.d

\* Sign of a learner weight lr * ln(n/d)
IsNegative(x) ==
    \/ x.tag = "rat" /\ x.n < 0
    \/ x.tag = "ln" /\ x.lr > 0 /\ x.n < x.d
IsPositive(x) ==
    \/ x.tag = "rat" /\ x.n > 0
    \/ x.tag = "ln" /\ x.lr > 0 /\ x.n > x.d

----------------------------------------------------------------------------
\* Weight vectors

NoneVec == [nums |-> <<>>, den |-> 0]
IsNone(w) == w.nums = <<>>

Reduce(nums, den) ==
    LET g == GCD(GCDSeq(nums), Abs(den))
    IN IF g = 0 THEN [nums |-> nums, den |-> den]
       ELSE [nums |-> [i \in DOMAIN nums |-> nums[i] \div g], den |-> den \div g]

\* np.sum(w)
SumVec(w) == IF w.den = 0 THEN NaN ELSE Rat(SumSeq(w.nums), w.den)

\* w / r, elementwise, for a number r; x/0 and x/NaN are not finite.
DivVec(w, r) ==
    IF w.den = 0 \/ r.tag # "rat" \/ r.n = 0
    THEN [nums |-> w.nums, den |-> 0]
    ELSE LET s == IF r.n < 0 THEN -1 ELSE 1
         IN Reduce([i \in DOMAIN w.nums |-> s * w.nums[i] * r.d], w.den * Abs(r.n))

\* w * f, elementwise, f[i] = <<numerator, denominator>> > 0.
MulVec(w, f) ==
    IF w.den = 0 THEN w
    ELSE LET L == LCMSeq([i \in DOMAIN f |-> f[i][2]])
         IN Reduce([i \in DOMAIN w.nums |-> w.nums[i] * f[i][1] * (L \div f[i][2])],
                   w.den * L)

----------------------------------------------------------------------------
\* Inputs of fit

Algorithms == {"SAMME", "SAMME.R"}
LearningRates == {0, 1, 2}
NEstimators == 0 .. MaxEstimators
\* Label vectors y, of two and of three classes (the sampler refuses a target
\* of a single class, so no round runs on one).
YChoices == {<<1, 1, 2>>, <<1, 2, 3>>}
\* The sample_weight argument; <<>> is None.
SampleWeightArgs == {<<>>, <<1, 1, 2>>, <<3, -2, 1>>, <<-2, 3, 1>>,
                     <<-1, -1, -2>>, <<1, -1, 0>>}

VARIABLES
    algorithm, n_estimators, learning_rate, y, sw_arg,   \* arguments, configuration
    pc,                  \* position in fit
    raised,              \* the exception fit ended with, "none" if none
    iboost,              \* loop variable of fit (-1: not bound yet)
    sample_weight,       \* fit's sample_weight array
    estimators_, samplers_, pipelines_,
    estimator_weights_, estimator_errors_,
    n_classes_,          \* 0: not set
    ret,                 \* what _boost returned to fit
    halt,                \* why the loop ended, "none" while it runs
    learner_error,       \* learner id -> the estimator_error computed for it
    n_normalized,        \* how many times line 238 has run
    round_start,         \* the lists, arrays and weights when the round began
    sample_indices_,     \* _boost's sampler.sample_indices_ (<<>> outside _boost)
    sample_weight_res,   \* _boost's local sample_weight_res
    incorrect            \* _boost's local incorrect

vars == <<algorithm, n_estimators, learning_rate, y, sw_arg, pc, raised, iboost,
          sample_weight, estimators_, samplers_, pipelines_, estimator_weights_,
          estimator_errors_, n_classes_, ret, halt, learner_error, n_normalized,
          round_start, sample_indices_, sample_weight_res, incorrect>>

inputs == <<algorithm, n_estimators, learning_rate, y, sw_arg>>
lists == <<estimators_, samplers_, pipelines_>>
arrays == <<estimator_weights_, estimator_errors_>>
\* the locals of _boost_discrete and _boost_real
frame == <<sample_indices_, sample_weight_res, incorrect>>

\* What fit holds when a round begins.
Snapshot ==
    [estimators_ |-> estimators_, samplers_ |-> samplers_, pipelines_ |-> pipelines_,
     estimator_weights_ |-> estimator_weights_, estimator_errors_ |-> estimator_errors_,
     sample_weight |-> sample_weight]

NSamples == Len(y)
\* classes_ of a fitted learner: the distinct labels of y
ClassSet == {y[i] : i \in DOMAIN y}
NClasses == Cardinality(ClassSet)

NoRet == [none |-> TRUE, sw |-> NoneVec, ew |-> NaN, ee |-> NaN]
Ret(sw, ew, ee) == [none |-> FALSE, sw |-> sw, ew |-> ew, ee |-> ee]

Init ==
    /\ algorithm \in Algorithms
    /\ n_estimators \in NEstimators
    /\ learning_rate \in LearningRates
    /\ y \in YChoices
    /\ sw_arg \in SampleWeightArgs
    /\ pc = "fit"
    /\ raised = "none"
    /\ iboost = -1
    /\ sample_weight = [nums |-> sw_arg, den |-> 1]
    /\ estimators_ = <<>> /\ samplers_ = <<>> /\ pipelines_ = <<>>
    /\ estimator_weights_ = <<>> /\ estimator_errors_ = <<>>
    /\ n_classes_ = 0
    /\ ret = NoRet
    /\ halt = "none"
    /\ learner_error = <<>>
    /\ n_normalized = 0
    /\ round_start = Snapshot
    /\ sample_indices_ = <<>>
    /\ sample_weight_res = NoneVec
    /\ incorrect = <<>>

----------------------------------------------------------------------------
\* fit, before the loop

LearningRateNegative(lr) == lr < 0

LearningRateInvalid(lr) == lr <= 0

\* fit lines 158-160
CheckLearningRate ==
    /\ pc = "fit"
    /\ IF LearningRateInvalid(learning_rate)
       THEN pc' = "failed" /\ raised' = "learning_rate"
       ELSE pc' = "init_sample_weight" /\ raised' = raised
    /\ UNCHANGED <<round_start, frame, inputs, iboost, sample_weight, lists, arrays, n_classes_, ret,
                   halt, learner_error, n_normalized>>

\* fit lines 174-181: 1/n_samples each, or the caller's weights over their sum
InitialWeights(arg, n) ==
    IF arg = <<>>
    THEN Reduce([i \in 1 .. n |-> 1], n)
    ELSE LET w == [nums |-> arg, den |-> 1] IN DivVec(w, SumVec(w))

\* fit line 184, evaluated on the normalized weights
NonPositiveTotal(w) == LeqZero(SumVec(w))

\* fit lines 174-187
InitSampleWeight ==
    /\ pc = "init_sample_weight"
    /\ sample_weight' = InitialWeights(sw_arg, NSamples)
    /\ IF sw_arg # <<>> /\ NonPositiveTotal(sample_weight')
       THEN pc' = "failed" /\ raised' = "sample_weight"
       ELSE pc' = "validate" /\ raised' = raised
    /\ UNCHANGED <<round_start, frame, inputs, iboost, lists, arrays, n_classes_, ret, halt,
                   learner_error, n_normalized>>

NEstimatorsInvalid(n) == n <= 0

\* fit line 190, _validate_estimator lines 242-260 (n_estimators is an integer)
ValidateEstimator ==
    /\ pc = "validate"
    /\ IF NEstimatorsInvalid(n_estimators)
       THEN pc' = "failed" /\ raised' = "n_estimators"
       ELSE pc' = "clear" /\ raised' = raised
    /\ UNCHANGED <<round_start, frame, inputs, iboost, sample_weight, lists, arrays, n_classes_, ret,
                   halt, learner_error, n_normalized>>

ZerosArray(n) == [i \in 1 .. n |-> Zero]
OnesArray(n) == [i \in 1 .. n |-> One]

\* fit lines 192-199
ClearResults ==
    /\ pc = "clear"
    /\ samplers_' = <<>> /\ pipelines_' = <<>> /\ estimators_' = <<>>
    /\ estimator_weights_' = ZerosArray(n_estimators)
    /\ estimator_errors_' = OnesArray(n_estimators)
    /\ pc' = "loop"
    /\ UNCHANGED <<round_start, frame, inputs, raised, iboost, sample_weight, n_classes_, ret, halt,
                   learner_error, n_normalized>>

\* fit line 201: for iboost in range(self.n_estimators)
LoopHead ==
    /\ pc = "loop"
    /\ IF iboost + 1 < n_estimators
       THEN iboost' = iboost + 1 /\ pc' = "make" /\ halt' = halt
            /\ round_start' = Snapshot
       ELSE iboost' = iboost /\ pc' = "done" /\ halt' = "completed"
            /\ round_start' = round_start
    /\ UNCHANGED <<frame, inputs, raised, sample_weight, lists, arrays, n_classes_, ret,
                   learner_error, n_normalized>>

----------------------------------------------------------------------------
\* One boosting round

MakeSamplerEstimatorNoPipeline ==
    /\ pc = "make"
    /\ estimators_' = Append(estimators_, iboost)
    /\ samplers_' = Append(samplers_, iboost)
    /\ pc' = "boost"
    /\ UNCHANGED <<round_start, frame, inputs, raised, iboost, sample_weight, arrays,
                   n_classes_, ret, halt, learner_error, n_normalized, pipelines_>>

\* _make_sampler_estimator lines 262-282 (append=True): the new learner,
\* sampler and pipeline are appended; a learner is named by its round.
MakeSamplerEstimator ==
    /\ pc = "make"
    /\ estimators_' = Append(estimators_, iboost)
    /\ samplers_' = Append(samplers_, iboost)
    /\ pipelines_' = Append(pipelines_, iboost)
    /\ pc' = "boost"
    /\ UNCHANGED <<round_start, frame, inputs, raised, iboost, sample_weight, arrays, n_classes_, ret,
                   halt, learner_error, n_normalized>>

\* sampler.fit_resample(X, y) of a RandomUnderSampler: sample_indices_ of a
\* subsample holding as many examples of every class as the rarest class has,
\* class by class; it is given the labels and never the weights.
CountOf(labels, c) == Cardinality({i \in DOMAIN labels : labels[i] = c})
MinCount(labels) ==
    CHOOSE m \in 1 .. Len(labels) :
        /\ \E i \in DOMAIN labels : CountOf(labels, labels[i]) = m
        /\ \A i \in DOMAIN labels : CountOf(labels, labels[i]) >= m
IsIncreasing(s) == \A i \in DOMAIN s : \A j \in DOMAIN s : i < j => s[i] < s[j]
BalancedSubsamples(labels) ==
    LET n == Len(labels)
        k == Cardinality({labels[i] : i \in DOMAIN labels})
    IN {s \in [1 .. k * MinCount(labels) -> 1 .. n] :
          /\ IsIncreasing(s)
          /\ \A i \in DOMAIN labels :
                Cardinality({j \in DOMAIN s : labels[s[j]] = labels[i]}) = MinCount(labels)}

Unsliced(w, idx) == w

\* lines 290-291, 352-353: safe_indexing(sample_weight, sampler.sample_indices_)
SafeIndexing(w, idx) == [nums |-> [j \in DOMAIN idx |-> w.nums[idx[j]]], den |-> w.den]

Rebound(old, new) == old

\* lines 340, 394: sample_weight *= ..., what the array passed in holds afterwards
InPlace(old, new) == new

\* np.average(incorrect, weights=sample_weight): sum(incorrect * w) / sum(w)
WeightedError(inc, w) ==
    IF w.den = 0 THEN NaN
    ELSE Rat(SumSeq([i \in DOMAIN w.nums |-> IF inc[i] THEN w.nums[i] ELSE 0]),
             SumSeq(w.nums))

\* np.average raises ZeroDivisionError when the weights sum to zero
WeightsSumToZero(w) == w.den # 0 /\ SumSeq(w.nums) = 0

\* lines 311, 370: estimator_error <= 0
IsPerfect(e) == LeqZero(e)

\* line 376: estimator_error >= 1. - (1. / n_classes)
WorseThanRandom(e, k) == GeqChance(e, k)

\* lines 387-389: learning_rate * (log((1 - e) / e) + log(n_classes - 1))
DiscreteLearnerWeight(lr, e, k) ==
    IF e.tag # "rat" THEN NaN ELSE Ln(lr, (e.d - e.n) * (k - 1), e.n)

\* exp(lr * ln(n/d)) as <<numerator, denominator>>
ExpOf(x) == <<Pow(x.n, x.lr), Pow(x.d, x.lr)>>

\* lines 392-396: sample_weight *= exp(ew * incorrect * ((w > 0) | (ew < 0)))
DiscreteBoost(w, ew, inc) ==
    IF ew.tag = "nan" \/ w.den = 0 THEN [nums |-> w.nums, den |-> 0]
    ELSE MulVec(w, [i \in DOMAIN w.nums |->
                      IF inc[i] /\ (w.nums[i] > 0 \/ IsNegative(ew))
                      THEN ExpOf(ew) ELSE <<1, 1>>])

PopFirst(s) == Tail(s)

PopNothing(s) == s

\* lines 377-379
PopLast(s) == SubSeq(s, 1, Len(s) - 1)

EnsembleAtMostOne(s) == Len(s) <= 1

\* line 380
EnsembleEmpty(s) == Len(s) = 0

FitsAgainAlways(i, n) == TRUE

\* lines 338, 392: not iboost == self.n_estimators - 1
FitsAgain(i, n) == i # n - 1

IsRealNever(alg) == FALSE

\* fit lines 206-208: AdaBoostClassifier._boost runs self._boost_real for
\* 'SAMME.R' and self._boost_discrete otherwise
IsReal(alg) == alg = "SAMME.R"

\* _boost_discrete lines 346-398
BoostDiscrete ==
    /\ pc = "boost"
    /\ ~IsReal(algorithm)
    /\ \E idx \in BalancedSubsamples(y) :
          /\ sample_indices_' = idx
          /\ sample_weight_res' = SafeIndexing(sample_weight, idx)
    /\ \E y_predict \in [DOMAIN y -> ClassSet] :
        LET inc == [i \in DOMAIN y |-> y_predict[i] # y[i]]
            k == IF iboost = 0 THEN NClasses ELSE n_classes_
            e == WeightedError(inc, sample_weight)
            ew == DiscreteLearnerWeight(learning_rate, e, k)
            boosted == IF FitsAgain(iboost, n_estimators)
                       THEN DiscreteBoost(sample_weight, ew, inc)
                       ELSE sample_weight
        IN /\ n_classes_' = k
           /\ incorrect' = inc
           /\ IF WeightsSumToZero(sample_weight)
              THEN /\ pc' = "failed" /\ raised' = "weights_sum_to_zero"
                   /\ UNCHANGED <<sample_weight, lists, ret, learner_error>>
              ELSE
              /\ learner_error' = Append(learner_error, e)
              /\ IF IsPerfect(e)
                 THEN /\ ret' = Ret(sample_weight, One, Zero)
                      /\ pc' = "after"
                      /\ UNCHANGED <<sample_weight, lists, raised>>
                 ELSE IF WorseThanRandom(e, k)
                 THEN /\ estimators_' = PopLast(estimators_)
                      /\ samplers_' = PopLast(samplers_)
                      /\ pipelines_' = PopLast(pipelines_)
                      /\ IF EnsembleEmpty(estimators_')
                         THEN pc' = "failed" /\ raised' = "worse_than_random"
                              /\ ret' = ret
                         ELSE pc' = "after" /\ raised' = raised /\ ret' = NoRet
                      /\ UNCHANGED sample_weight
                 ELSE /\ sample_weight' = InPlace(sample_weight, boosted)
                      /\ ret' = Ret(boosted, ew, e)
                      /\ pc' = "after"
                      /\ UNCHANGED <<lists, raised>>
    /\ UNCHANGED <<round_start, inputs, iboost, arrays, halt, n_normalized>>

\* A learner's predict_proba row for one example: numerators over their sum.
\* The rows are positive, so the clip of line 330 leaves them as they are, and
\* they are such that exp of the SAMME.R contribution is rational.
ProbaRows(k) ==
    IF k = 2 THEN {<<1, 1>>, <<4, 1>>, <<1, 4>>}
    ELSE {<<1, 1, 1>>, <<8, 1, 1>>, <<1, 8, 1>>, <<1, 1, 8>>}

\* classes_ as the sorted array of labels; index (1-based) of a label in it
ClassIndex(c) == Cardinality({b \in ClassSet : b <= c})
ClassAt(j) == CHOOSE c \in ClassSet : ClassIndex(c) = j

\* np.argmax: the first index holding the maximum
ArgMax(row) ==
    CHOOSE j \in DOMAIN row :
        /\ \A m \in DOMAIN row : row[m] <= row[j]
        /\ \A m \in DOMAIN row : m < j => row[m] < row[j]

RECURSIVE ProdSeq(_)
ProdSeq(s) == IF s = <<>> THEN 1 ELSE Head(s) * ProdSeq(Tail(s))

\* the exact k-th root of a perfect k-th power
Root(x, k) == CHOOSE r \in 1 .. x : Pow(r, k) = x

\* lines 321-335 for one example with true class index c, as exp(estimator_weight):
\* exp(-lr * ((K-1)/K) * sum_j coding_j * ln p_j)
\*   = (prod_{j # c} p_j / p_c^(K-1)) ^ (lr / K)
RealFactor(row, c, lr) ==
    LET k == Len(row)
        num == ProdSeq([j \in DOMAIN row |-> IF j = c THEN 1 ELSE row[j]])
        den == Pow(row[c], k - 1)
        g == GCD(num, den)
    IN <<Pow(Root(num \div g, k), lr), Pow(Root(den \div g, k), lr)>>

\* lines 338-342: sample_weight *= exp(ew * ((w > 0) | (ew < 0))), ew per example
RealBoost(w, f) ==
    MulVec(w, [i \in DOMAIN w.nums |->
                  IF w.nums[i] > 0 \/ f[i][1] < f[i][2] THEN f[i] ELSE <<1, 1>>])

RealLearnerWeightScaled == Rat(learning_rate, 1)

\* lines 312, 344: the learner weight _boost_real returns
RealLearnerWeight == One

\* _boost_real lines 284-344
BoostReal ==
    /\ pc = "boost"
    /\ IsReal(algorithm)
    /\ \E idx \in BalancedSubsamples(y) :
          /\ sample_indices_' = idx
          /\ sample_weight_res' = SafeIndexing(sample_weight, idx)
    /\ \E proba \in [DOMAIN y -> ProbaRows(NClasses)] :
        LET k == IF iboost = 0 THEN NClasses ELSE n_classes_
            y_predict == [i \in DOMAIN y |-> ClassAt(ArgMax(proba[i]))]
            inc == [i \in DOMAIN y |-> y_predict[i] # y[i]]
            e == WeightedError(inc, sample_weight)
            f == [i \in DOMAIN y |-> RealFactor(proba[i], ClassIndex(y[i]), learning_rate)]
            boosted == IF FitsAgain(iboost, n_estimators)
                       THEN RealBoost(sample_weight, f)
                       ELSE sample_weight
        IN /\ n_classes_' = k
           /\ incorrect' = inc
           /\ IF WeightsSumToZero(sample_weight)
              THEN /\ pc' = "failed" /\ raised' = "weights_sum_to_zero"
                   /\ UNCHANGED <<sample_weight, ret, learner_error>>
              ELSE
              /\ learner_error' = Append(learner_error, e)
              /\ pc' = "after"
              /\ raised' = raised
              /\ IF IsPerfect(e)
                 THEN /\ ret' = Ret(sample_weight, RealLearnerWeight, Zero)
                      /\ UNCHANGED sample_weight
                 ELSE /\ sample_weight' = InPlace(sample_weight, boosted)
                      /\ ret' = Ret(boosted, RealLearnerWeight, e)
    /\ UNCHANGED <<round_start, inputs, iboost, lists, arrays, halt, n_normalized>>

----------------------------------------------------------------------------
\* fit, after the round

IsNegativeError(e) == e.tag = "rat" /\ e.n < 0

\* line 222: estimator_error == 0
IsZeroError(e) == EqZero(e)

NeverDegenerate(s) == FALSE

\* line 230: sample_weight_sum <= 0
IsDegenerate(s) == LeqZero(s)

NormalizeSkipped(w, s) == w

\* line 238: sample_weight /= sample_weight_sum
Normalize(w, s) == DivVec(w, s)

RecordIndexNext(i) == i + 2

\* lines 218-219: position of round i in the arrays (sequences count from 1)
RecordIndex(i) == i + 1

\* fit lines 206-208 (the assignment of the result) and 214-238; the locals of
\* the _boost call that returned no longer exist
AfterBoost ==
    /\ pc = "after"
    /\ IF ret.none
       THEN /\ sample_weight' = NoneVec
            /\ pc' = "done" /\ halt' = "worse_than_random"
            /\ UNCHANGED <<arrays, n_normalized>>
       ELSE /\ estimator_weights_' = [estimator_weights_ EXCEPT ![RecordIndex(iboost)] = ret.ew]
            /\ estimator_errors_' = [estimator_errors_ EXCEPT ![RecordIndex(iboost)] = ret.ee]
            /\ IF IsZeroError(ret.ee)
               THEN /\ pc' = "done" /\ halt' = "perfect"
                    /\ sample_weight' = ret.sw
                    /\ UNCHANGED n_normalized
               ELSE IF IsDegenerate(SumVec(ret.sw))
               THEN /\ pc' = "done" /\ halt' = "degenerate"
                    /\ sample_weight' = ret.sw
                    /\ UNCHANGED n_normalized
               ELSE /\ pc' = "loop" /\ halt' = halt
                    /\ IF iboost < n_estimators - 1
                       THEN /\ sample_weight' = Normalize(ret.sw, SumVec(ret.sw))
                            /\ n_normalized' = n_normalized + 1
                       ELSE /\ sample_weight' = ret.sw
                            /\ UNCHANGED n_normalized
    /\ sample_indices_' = <<>> /\ sample_weight_res' = NoneVec /\ incorrect' = <<>>
    /\ UNCHANGED <<round_start, inputs, raised, iboost, lists, n_classes_, ret,
                   learner_error>>

Next ==
    \/ CheckLearningRate
    \/ InitSampleWeight
    \/ ValidateEstimator
    \/ ClearResults
    \/ LoopHead
    \/ MakeSamplerEstimator
    \/ BoostDiscrete
    \/ BoostReal
    \/ AfterBoost

Spec == Init /\ [][Next]_vars

----------------------------------------------------------------------------
\* Vocabulary of the properties

RealMode == algorithm = "SAMME.R"
DiscreteMode == algorithm = "SAMME"

\* The caller passed no weights, or weights of positive total.
ValidInput == sw_arg = <<>> \/ SumSeq(sw_arg) > 0

\* The exceptions of the parameter checks.
ParameterErrors == {"learning_rate", "sample_weight", "n_estimators"}

\* The arrays exist: fit has passed lines 196-197.
Allocated ==
    \/ pc \in {"loop", "make", "boost", "after", "done"}
    \/ pc = "failed" /\ raised \notin ParameterErrors

\* Number of rounds whose result fit has recorded (lines 218-219).
Completed ==
    IF pc \in {"make", "boost", "after"} THEN iboost
    ELSE IF pc = "loop" THEN iboost + 1
    ELSE IF pc = "done" THEN (IF halt = "worse_than_random" THEN iboost ELSE iboost + 1)
    ELSE IF Allocated THEN iboost
    ELSE 0

\* A round is running or has run.
InRounds == pc \in {"make", "boost", "after", "done"} \/ learner_error # <<>>

----------------------------------------------------------------------------
\* C1: on valid input the weight vector handed to every round sums to 1, and
\* the division by the sum has run once per earlier round and never for the
\* last permissible round.
C1_WeightsSumToOne ==
    /\ (ValidInput /\ pc \in {"make", "boost"}) => SumVec(sample_weight) = One
    /\ pc \in {"make", "boost", "after"} => n_normalized = iboost
    /\ halt = "completed" => n_normalized = n_estimators - 1

C1_Witness ==
    /\ ValidInput /\ pc = "boost" /\ iboost = 1 /\ n_normalized = 1
    /\ sample_weight # InitialWeights(sw_arg, NSamples)
    /\ SumVec(sample_weight) = One

\* C2: in discrete mode no learner found worse than random is in the three
\* lists when fit has ended, and fit fails when the first learner is one.
C2_NoWorseThanRandomLearner ==
    DiscreteMode =>
        /\ pc \in {"done", "failed"} =>
              \A l \in {estimators_, samplers_, pipelines_} :
                 \A i \in DOMAIN l :
                    /\ l[i] + 1 \in DOMAIN learner_error
                    /\ ~WorseThanRandom(learner_error[l[i] + 1], n_classes_)
        /\ (learner_error # <<>> /\ WorseThanRandom(learner_error[1], n_classes_)) =>
              pc = "failed" /\ raised = "worse_than_random"

C2_Witness ==
    /\ DiscreteMode /\ pc = "failed" /\ raised = "worse_than_random"
    /\ Len(learner_error) = 1 /\ WorseThanRandom(learner_error[1], n_classes_)
    /\ estimators_ = <<>> /\ samplers_ = <<>> /\ pipelines_ = <<>>

\* C3: the worse-than-random failure is raised only in discrete mode in round
\* 0; a round k >= 1 that fails the chance-level check leaves a non-empty
\* ensemble and fit returns.
C3_FailureOnlyInRoundZero ==
    /\ raised = "worse_than_random" => DiscreteMode /\ iboost = 0
    /\ (pc = "after" /\ ret.none) => iboost >= 1 /\ Len(estimators_) >= 1
    /\ halt = "worse_than_random" =>
          /\ iboost >= 1 /\ Len(estimators_) >= 1
          /\ pc = "done" /\ raised = "none"

C3_Witness ==
    /\ halt = "worse_than_random" /\ pc = "done" /\ iboost = 1
    /\ WorseThanRandom(learner_error[2], n_classes_)
    /\ estimators_ = <<0>>

\* C4: a round whose error is <= 0 is the last one; its learner stays, and its
\* recorded learner weight is 1 and its recorded error 0.
C4_PerfectRoundIsLast ==
    \A j \in DOMAIN learner_error :
        IsPerfect(learner_error[j]) =>
            /\ j = Len(learner_error)
            /\ estimators_ = [i \in 1 .. j |-> i - 1]
            /\ samplers_ = estimators_ /\ pipelines_ = estimators_
            /\ pc \in {"after", "done"}
            /\ raised = "none"
            /\ pc = "after" => ret = Ret(sample_weight, One, Zero)
            /\ pc = "done" =>
                  /\ halt = "perfect"
                  /\ estimator_weights_[j] = One
                  /\ estimator_errors_[j] = Zero

C4_Witness ==
    /\ pc = "done" /\ halt = "perfect" /\ IsPerfect(learner_error[1])
    /\ estimators_ = <<0>>
    /\ estimator_weights_[1] = One /\ estimator_errors_[1] = Zero
    /\ n_estimators > 1

\* C5: caller weights of non-positive total never reach a boosting round.
C5_NonPositiveTotalRejected ==
    (sw_arg # <<>> /\ SumSeq(sw_arg) <= 0) =>
        /\ ~InRounds
        /\ pc \notin {"validate", "clear", "loop"}

\* C6: with learning_rate <= 0 or n_estimators <= 0 fit never gets past the
\* parameter checks: no learner or sampler exists, nothing is written by a
\* round, and fit ends with a parameter error.
C6_BadParametersFailEarly ==
    (learning_rate <= 0 \/ n_estimators <= 0) =>
        /\ pc \in {"fit", "init_sample_weight", "validate", "failed"}
        /\ pc = "failed" => raised \in ParameterErrors
        /\ estimators_ = <<>> /\ samplers_ = <<>> /\ pipelines_ = <<>>
        /\ estimator_weights_ = <<>> /\ estimator_errors_ = <<>>
        /\ learner_error = <<>> /\ ret = NoRet /\ n_classes_ = 0

C6_Witness ==
    /\ pc = "failed" /\ raised = "n_estimators" /\ learning_rate > 0
    /\ estimators_ = <<>> /\ estimator_weights_ = <<>>

\* C7: once allocated, both arrays have length n_estimators and every entry
\* past the last recorded round holds its default, 0 for weights and 1 for
\* errors; a rejected round leaves its own entry at the default.
C7_ArraysKeepDefaults ==
    Allocated =>
        /\ Len(estimator_weights_) = n_estimators
        /\ Len(estimator_errors_) = n_estimators
        /\ \A i \in 1 .. n_estimators :
              i > Completed =>
                 estimator_weights_[i] = Zero /\ estimator_errors_[i] = One

C7_Witness ==
    /\ pc = "done" /\ halt = "worse_than_random" /\ iboost = 1
    /\ Len(estimator_weights_) = n_estimators
    /\ estimator_weights_[1] # Zero /\ estimator_errors_[1] # One
    /\ estimator_weights_[2] = Zero /\ estimator_errors_[2] = One

\* C9: in real-valued mode every learner weight a round returns and every
\* learner weight recorded is exactly 1.
C9_RealLearnerWeightIsOne ==
    RealMode =>
        /\ ~ret.none => ret.ew = One
        /\ Allocated => \A i \in 1 .. Completed : estimator_weights_[i] = One

C9_Witness ==
    /\ RealMode /\ pc = "done" /\ halt = "completed"
    /\ learning_rate = 2 /\ n_estimators = 2
    /\ estimator_weights_ = <<One, One>>
    /\ ~IsPerfect(learner_error[1]) /\ ~IsPerfect(learner_error[2])

\* C10: in real-valued mode nothing is rejected: every learner attempted stays
\* in the lists, a round of positive error has that error recorded, and fit
\* neither halts nor fails as worse than random.
C10_RealNeverRejects ==
    RealMode =>
        /\ raised # "worse_than_random" /\ halt # "worse_than_random"
        /\ ~(pc = "after" /\ ret.none)
        /\ \A j \in DOMAIN learner_error :
              /\ j \in DOMAIN estimators_ /\ estimators_[j] = j - 1
              /\ j \in DOMAIN samplers_ /\ samplers_[j] = j - 1
              /\ j \in DOMAIN pipelines_ /\ pipelines_[j] = j - 1
              /\ (j <= Completed /\ ~IsPerfect(learner_error[j])) =>
                    estimator_errors_[j] = learner_error[j]

C10_Witness ==
    /\ RealMode /\ pc = "boost" /\ iboost = 1
    /\ WorseThanRandom(learner_error[1], n_classes_)
    /\ estimator_errors_[1] = learner_error[1]
    /\ estimators_ = <<0, 1>>

\* C11: when fit has returned, the three lists have one length m with
\* 1 <= m <= n_estimators, entry i of them is the learner of round i, entries
\* 1..m of the arrays hold what round i recorded and the entries past m hold
\* the defaults, however the loop ended.
C11_TerminalEnsemble ==
    pc = "done" =>
        LET m == Len(estimators_) IN
        /\ raised = "none"
        /\ halt \in {"completed", "perfect", "degenerate", "worse_than_random"}
        /\ Len(samplers_) = m /\ Len(pipelines_) = m
        /\ 1 <= m /\ m <= n_estimators
        /\ \A i \in 1 .. m :
              /\ estimators_[i] = i - 1 /\ samplers_[i] = i - 1 /\ pipelines_[i] = i - 1
              /\ estimator_errors_[i] =
                    IF IsPerfect(learner_error[i]) THEN Zero ELSE learner_error[i]
              /\ estimator_weights_[i] # Zero
        /\ \A i \in m + 1 .. n_estimators :
              estimator_weights_[i] = Zero /\ estimator_errors_[i] = One

C11_Witness ==
    /\ pc = "done" /\ halt = "degenerate" /\ n_estimators = 2
    /\ Len(estimators_) = 1 /\ Len(samplers_) = 1 /\ Len(pipelines_) = 1
    /\ estimator_errors_[1] = learner_error[1]
    /\ estimator_errors_[2] = One

\* C12: in discrete mode, when a round k >= 1 fails the chance-level check,
\* fit returns with no further round, and the lists and the arrays are what
\* they were when round k began, that is at the end of round k-1.
C12_RejectionKeepsPreviousRounds ==
    (DiscreteMode /\ (halt = "worse_than_random" \/ (pc = "after" /\ ret.none))) =>
        /\ raised = "none"
        /\ iboost >= 1
        /\ Len(learner_error) = iboost + 1
        /\ halt = "worse_than_random" => pc = "done"
        /\ estimators_ = round_start.estimators_
        /\ samplers_ = round_start.samplers_
        /\ pipelines_ = round_start.pipelines_
        /\ estimator_weights_ = round_start.estimator_weights_
        /\ estimator_errors_ = round_start.estimator_errors_

C12_Witness ==
    /\ DiscreteMode /\ pc = "done" /\ halt = "worse_than_random" /\ iboost = 1
    /\ estimators_ = <<0>> /\ round_start.estimators_ = <<0>>
    /\ estimator_errors_ = <<learner_error[1], One>>
    /\ estimator_errors_ = round_start.estimator_errors_
    /\ estimator_weights_ = round_start.estimator_weights_

\* C13: in every round of either mode the learner is fitted with the weights of
\* the start of the round taken at the sampler's indices, its error is the
\* weighted error over all examples under those same start-of-round weights,
\* the weights fit holds afterwards are the update of the start-of-round
\* weights by a learner weight derived from that error, and the sampler's
\* indices are a balanced subsample of the labels alone.
C13_FitAndScoreOnStartWeights ==
    (pc = "after" \/ (pc = "failed" /\ raised = "worse_than_random")) =>
        LET w0 == round_start.sample_weight
            e == WeightedError(incorrect, w0)
        IN /\ sample_indices_ \in BalancedSubsamples(y)
           /\ sample_weight_res =
                 [nums |-> [j \in DOMAIN sample_indices_ |-> w0.nums[sample_indices_[j]]],
                  den |-> w0.den]
           /\ DOMAIN incorrect = DOMAIN y
           /\ learner_error[iboost + 1] = e
           /\ (pc = "after" /\ ~ret.none) =>
                 /\ ret.ee = IF IsPerfect(e) THEN Zero ELSE e
                 /\ (IsPerfect(e) \/ iboost = n_estimators - 1) => sample_weight = w0
                 /\ (DiscreteMode /\ ~IsPerfect(e) /\ iboost # n_estimators - 1) =>
                       sample_weight =
                          DiscreteBoost(w0, DiscreteLearnerWeight(learning_rate, e, n_classes_),
                                        incorrect)

C13_Witness ==
    /\ pc = "after" /\ iboost = 0 /\ ~ret.none
    /\ y = <<1, 1, 2>> /\ sw_arg = <<1, 1, 2>>
    /\ sample_indices_ = <<2, 3>>
    /\ sample_weight_res = [nums |-> <<1, 2>>, den |-> 4]
    /\ learner_error[1] = WeightedError(incorrect, round_start.sample_weight)
    /\ sample_weight # round_start.sample_weight

C15_RejectedNeverAppended ==
    [][(/\ DiscreteMode
        /\ Len(learner_error') > Len(learner_error)
        /\ WorseThanRandom(learner_error'[Len(learner_error')], n_classes_'))
       => /\ \A i \in DOMAIN estimators_ : estimators_[i] # iboost
          /\ \A i \in DOMAIN samplers_ : samplers_[i] # iboost
          /\ \A i \in DOMAIN pipelines_ : pipelines_[i] # iboost
          /\ lists' = lists]_vars

\* C15, amended: in discrete mode the learner of a round is the last entry of
\* the three lists before it is fitted, and once _boost_discrete has returned
\* or raised, the lists hold no learner whose error was found to be
\* >= 1 - 1/n_classes: the round that found it has popped it.
C15_RejectedLearnerPopped ==
    DiscreteMode =>
        /\ pc = "boost" =>
              /\ estimators_ # <<>> /\ estimators_[Len(estimators_)] = iboost
              /\ samplers_ # <<>> /\ samplers_[Len(samplers_)] = iboost
              /\ pipelines_ # <<>> /\ pipelines_[Len(pipelines_)] = iboost
        /\ \A l \in {estimators_, samplers_, pipelines_} :
              \A i \in DOMAIN l :
                 l[i] + 1 \in DOMAIN learner_error =>
                    ~WorseThanRandom(learner_error[l[i] + 1], n_classes_)

C15_Witness ==
    /\ DiscreteMode /\ pc = "after" /\ ret.none /\ iboost = 1
    /\ WorseThanRandom(learner_error[2], n_classes_)
    /\ round_start.estimators_ = <<0>>
    /\ estimators_ = <<0>> /\ samplers_ = <<0>> /\ pipelines_ = <<0>>

\* C16: once fit has taken the result of a round whose returned weights have a
\* non-positive sum, it has stopped: the weights are left undivided, no
\* further round runs, and the round's learner, learner weight and error stay
\* in the lists and at the round's index of the arrays.
C16_DegenerateStopsKeepingRound ==
    /\ (/\ pc \in {"loop", "make", "boost", "done"}
        /\ ~ret.none
        /\ LeqZero(SumVec(ret.sw))) =>
            /\ pc = "done" /\ halt = "degenerate" /\ raised = "none"
    /\ halt = "degenerate" =>
            /\ pc = "done"
            /\ LeqZero(SumVec(ret.sw))
            /\ sample_weight = ret.sw
            /\ n_normalized = iboost
            /\ Len(learner_error) = iboost + 1
            /\ Len(estimators_) = iboost + 1 /\ estimators_[iboost + 1] = iboost
            /\ Len(samplers_) = iboost + 1 /\ samplers_[iboost + 1] = iboost
            /\ Len(pipelines_) = iboost + 1 /\ pipelines_[iboost + 1] = iboost
            /\ estimator_weights_[iboost + 1] = ret.ew
            /\ estimator_errors_[iboost + 1] = ret.ee
            /\ ret.ee = learner_error[iboost + 1]

C16_Witness ==
    /\ pc = "done" /\ halt = "degenerate" /\ n_estimators = 2 /\ iboost = 0
    /\ SumVec(sample_weight).n < 0
    /\ estimators_ = <<0>>
    /\ estimator_weights_[1] = One
    /\ estimator_errors_[1] = learner_error[1]

\* C17: in round n_estimators - 1, in both modes, the weights the round returns
\* are the weights it was given and fit leaves them so, while the round's
\* error and learner weight are computed and recorded at its index.
C17_LastRoundLeavesWeights ==
    /\ (pc = "after" /\ iboost = n_estimators - 1 /\ ~ret.none) =>
          LET e == learner_error[iboost + 1] IN
          /\ ret.sw = round_start.sample_weight
          /\ sample_weight = round_start.sample_weight
          /\ ret.ee = IF IsPerfect(e) THEN Zero ELSE e
          /\ (DiscreteMode /\ ~IsPerfect(e)) =>
                ret.ew = DiscreteLearnerWeight(learning_rate, e, n_classes_)
          /\ (RealMode \/ IsPerfect(e)) => ret.ew = One
    /\ (pc = "done" /\ halt = "completed") =>
          /\ iboost = n_estimators - 1
          /\ sample_weight = round_start.sample_weight
          /\ estimator_weights_[n_estimators] = ret.ew
          /\ estimator_errors_[n_estimators] = ret.ee
          /\ ret.ee = learner_error[n_estimators]

C17_Witness ==
    /\ pc = "done" /\ halt = "completed" /\ DiscreteMode /\ n_estimators = 2
    /\ estimator_weights_[2].tag = "ln"
    /\ estimator_errors_[2] = learner_error[2]
    /\ sample_weight = round_start.sample_weight
    /\ sample_weight # InitialWeights(sw_arg, NSamples)

\* C18: in discrete mode every learner weight a round returns and every learner
\* weight recorded for a kept learner is strictly positive.
C18_DiscreteWeightPositive ==
    DiscreteMode =>
        /\ (pc = "after" /\ ~ret.none) => IsPositive(ret.ew)
        /\ Allocated => \A i \in 1 .. Completed : IsPositive(estimator_weights_[i])

\* The same for caller weights whose total is not zero (and for no caller
\* weights): there the error that reaches the formula is a number e with
\* 0 < e < 1 - 1/n_classes.
C18_PositiveOnNonZeroTotal ==
    (sw_arg = <<>> \/ SumSeq(sw_arg) # 0) => C18_DiscreteWeightPositive

====
